---- MODULE Spec2Model ----
(***************************************************************************)
(* Model of the mangOH SPI service (spiServiceComponent/spiService.c) and  *)
(* of the SPI library it calls.  One action per IPC handler; the session   *)
(* close handler is an action of its own.  The service is single-threaded, *)
(* so every handler runs to completion as one step.                        *)
(***************************************************************************)
EXTENDS Integers, Sequences, FiniteSets, TLC

\* ------------------------------------------------------------------ bounds
MaxRefs == 3            \* safe references the map ever hands out

\* --------------------------------------------------------- program constants
DevicePathSize == 256   \* char devicePath[256]
DevPrefixLen == 5       \* strlen("/dev/")
FirstFd == 3            \* 0, 1, 2 are the standard streams
NullRef == 0            \* NULL handle reference

\* The client sessions; the service only ever compares session references for
\* equality.  NoSession is the NULL reference.
Sessions == {"A", "B"}
NoSession == "NULL"

\* ----------------------------------------------------------- file system
\* A file is identified by (st_dev, st_ino).  The third file lives on another
\* file system and happens to carry the inode number of the first.
FileA == [dev |-> 1, ino |-> 10]
FileB == [dev |-> 1, ino |-> 11]
FileC == [dev |-> 2, ino |-> 10]
Files == {FileA, FileB, FileC}
Absent == [dev |-> 0, ino |-> 0]
NoFile == Absent

\* Names a client passes as deviceName; FsNames are the ones the file system
\* may bind.  NameLen is strlen(deviceName).
FsNames == {"spidev0.0", "spidev0.1", "spi_alias", "../mnt/spidev"}
DeviceNames == FsNames \cup {"name250", "name251"}
NameLen(n) ==
    CASE n = "spidev0.0" -> 9
      [] n = "spidev0.1" -> 9
      [] n = "spi_alias" -> 9
      [] n = "../mnt/spidev" -> 13
      [] n = "name250" -> 250
      [] n = "name251" -> 251

\* What the device paths are bound to.  The bindings are fixed; the one change
\* modelled is the replacement of the entry behind a path inside the window
\* between spi_Open's stat() and its open() (fileAtOpen below).
fs == [n \in FsNames |->
             CASE n = "spidev0.0" -> FileA
               [] n = "spidev0.1" -> FileB
               [] n = "spi_alias" -> FileA
               [] n = "../mnt/spidev" -> FileC]

VARIABLES
    registry,          \* g.deviceHandleRefMap: safe ref -> Device_t
    nextRef,           \* next safe reference le_ref_CreateRef hands out
    fdTable,           \* descriptors the process holds: fd -> [file, serial]
    nextSerial,        \* numbers the successful open() calls
    capturedId,        \* history: safe ref -> the (st_dev, st_ino) stat() reported
    ClientSessionRef,  \* what spi_GetClientSessionRef() returns
    sessState,         \* session -> "connected" | "killed" | "closed"
    running,           \* FALSE once LE_FATAL has ended the process
    last,              \* what the last handler did and returned
    libIn,             \* arguments and driver answers of the library calls
    driver             \* parameter registers of the SPI driver

vars == <<registry, nextRef, fdTable, nextSerial, capturedId, ClientSessionRef,
          sessState, running, last, libIn, driver>>

\* The four parameters of spiLib_Configure, also the driver's registers.
NoConfig == [mode |-> 0, bits |-> 0, speed |-> 0, msb |-> 0]
NoInput == [kind |-> "none", wlen |-> 0, rlen |-> 0, count |-> 0, failAt |-> 0,
            cfg |-> NoConfig]

NoCall == [op |-> "init", caller |-> NoSession, name |-> "", handle |-> NullRef,
           result |-> "none", handleOut |-> NullRef, killed |-> {},
           issued |-> <<>>, statCalled |-> FALSE, statId |-> NoFile,
           openCalled |-> FALSE, examined |-> <<>>, closed |-> {},
           wlen |-> 0, rlen |-> 0, badClose |-> FALSE,
           count |-> 0, failAt |-> 0, fatal |-> FALSE,
           cfg |-> NoConfig, readback |-> NoConfig, seq |-> 0,
           snprintfResult |-> 0, statErrno |-> "none", openErrno |-> "none"]

Init ==
    /\ registry = <<>>
    /\ nextRef = 1
    /\ fdTable = <<>>
    /\ nextSerial = 1
    /\ capturedId = <<>>
    /\ ClientSessionRef = NoSession
    /\ sessState = [s \in Sessions |-> "connected"]
    /\ running = TRUE
    /\ last = NoCall
    /\ libIn = NoInput
    /\ driver = NoConfig

\* ------------------------------------------------------------- helpers
\* Restriction of a function to the domain minus one element.
Without(f, k) == [x \in (DOMAIN f) \ {k} |-> f[x]]

Min(S) == CHOOSE x \in S : \A y \in S : x <= y

\* open() returns the lowest descriptor number not in use.
LowestFreeFd(tbl) == Min({n \in FirstFd..(FirstFd + Cardinality(DOMAIN tbl)) :
                          n \notin DOMAIN tbl})

\* `int > size_t`: the int is converted to unsigned, so a negative value
\* compares as a value above every buffer size.
GtUnsigned(i, u) == IF i < 0 THEN TRUE ELSE i > u

\* stat()/open() resolve the path "/dev/<deviceName>" in file system f.
Resolve(f, n) == IF n \in DOMAIN f THEN f[n] ELSE Absent

\* errno values the environment can produce for a path.
ErrnosFor(target) == IF target = Absent THEN {"ENOENT"} ELSE {"none", "EACCES", "EIO"}

\* The mapping of errno to a result, used after stat() and after open().
\* Mutant: EACCES is not told apart from the other failures.
ErrnoResult_noAccess(errno) ==
    IF errno = "ENOENT" THEN "LE_NOT_FOUND" ELSE "LE_FAULT"
ErrnoResult(errno) ==
    IF errno = "ENOENT" THEN "LE_NOT_FOUND"
    ELSE IF errno = "EACCES" THEN "LE_NOT_PERMITTED"
    ELSE "LE_FAULT"

\* LE_KILL_CLIENT: the framework closes the session of the current client.
\* The close notification for it is delivered later (clientSessionClosedHandler).
KillClient(ss, target) ==
    IF target \in Sessions /\ ss[target] = "connected"
    THEN [ss EXCEPT ![target] = "killed"]
    ELSE ss

\* The NULL Device_t pointer.
NullDevice == [fd |-> -1, inode |-> 0, owningSession |-> NoSession]

\* Mutant: handles are raw pointers, and a stale one aliases the device that
\* was allocated last.
le_ref_Lookup_alias(reg, handle) ==
    IF handle \in DOMAIN reg THEN reg[handle]
    ELSE IF handle # NullRef /\ DOMAIN reg # {}
         THEN reg[CHOOSE h \in DOMAIN reg : \A g \in DOMAIN reg : g <= h]
         ELSE NullDevice
\* le_ref_Lookup: the device behind a safe reference, or NULL.  A reference
\* that was deleted is never handed out again, so it resolves to NULL.
le_ref_Lookup(reg, handle) == IF handle \in DOMAIN reg THEN reg[handle] ELSE NullDevice

\* Mutant: the ownership test is passed by every caller.
isDeviceOwnedByCaller_anyone(device, csr) == TRUE
isDeviceOwnedByCaller(device, csr) == device.owningSession = csr

\* Mutant: the search never finds a device.
findDeviceWithInode_none(reg, inode) == {}
\* Mutant: the search looks at the first node of the map only.
findDeviceWithInode_firstOnly(reg, inode) ==
    {h \in DOMAIN reg : reg[h].inode = inode /\ \A g \in DOMAIN reg : h <= g}
\* The devices of the map that carry the given inode; the C function returns
\* the first one the iterator meets, or NULL when the set is empty.
findDeviceWithInode(reg, inode) == {h \in DOMAIN reg : reg[h].inode = inode}

\* ------------------------------------------------------------- spi_Open
\* The result of spi_Open against map reg and the step that decided it.  The
\* inputs are what snprintf, stat() and open() answer.
spi_OpenResult(reg, deviceName, snprintfFails, statErrno, openErrno) ==
    LET snprintfResult == IF snprintfFails THEN -1
                          ELSE DevPrefixLen + NameLen(deviceName)
        deviceFileStat == Resolve(fs, deviceName)
        out(result, step) == [result |-> result, step |-> step,
                              snprintfResult |-> snprintfResult]
    IN  IF GtUnsigned(snprintfResult, DevicePathSize - 1) THEN
            out("LE_BAD_PARAMETER", "snprintf")
        ELSE IF snprintfResult < 0 THEN
            out("LE_FAULT", "snprintf")
        ELSE IF statErrno # "none" THEN
            out(ErrnoResult(statErrno), "stat")
        ELSE IF findDeviceWithInode(reg, deviceFileStat.ino) # {} THEN
            out("LE_DUPLICATE", "find")
        ELSE IF openErrno # "none" THEN
            out(ErrnoResult(openErrno), "open")
        ELSE
            out("LE_OK", "done")

\* Mutant: the new device is not given its owner.
NewDevice_noOwner(openResult, inode, csr) ==
    [fd |-> openResult, inode |-> inode, owningSession |-> NoSession]
\* The fields spi_Open sets in the freshly allocated Device_t.
NewDevice(openResult, inode, csr) ==
    [fd |-> openResult, inode |-> inode, owningSession |-> csr]

spi_Open(s, deviceName, snprintfFails, statErrno, fileAtOpen, openErrno) ==
    /\ running
    /\ sessState[s] = "connected"
    /\ nextRef <= MaxRefs
    /\ ClientSessionRef' = s
    /\ LET out == spi_OpenResult(registry, deviceName, snprintfFails, statErrno, openErrno)
           deviceFileStat == Resolve(fs, deviceName)
           openResult == LowestFreeFd(fdTable)
           newDevice == NewDevice(openResult, deviceFileStat.ino, s)
           statOk == out.step \in {"find", "open", "done"}
       IN /\ last' = [NoCall EXCEPT
                        !.op = "Open", !.caller = s, !.name = deviceName,
                        !.result = out.result,
                        !.handleOut = IF out.result = "LE_OK" THEN nextRef ELSE NullRef,
                        !.snprintfResult = out.snprintfResult,
                        !.statErrno = statErrno, !.openErrno = openErrno,
                        !.statCalled = out.step # "snprintf",
                        !.statId = IF statOk THEN deviceFileStat ELSE NoFile,
                        !.openCalled = out.step \in {"open", "done"}]
          /\ IF out.result = "LE_OK"
             THEN /\ registry' = registry @@ (nextRef :> newDevice)
                  /\ capturedId' = capturedId @@ (nextRef :> deviceFileStat)
                  /\ nextRef' = nextRef + 1
                  /\ fdTable' = fdTable @@ (openResult :> [file |-> fileAtOpen,
                                                           serial |-> nextSerial])
                  /\ nextSerial' = nextSerial + 1
             ELSE UNCHANGED <<registry, capturedId, nextRef, fdTable, nextSerial>>
    /\ UNCHANGED <<sessState, running>>

\* ------------------------------------------------------------ spi_Close
\* The effect of one spi_Close(handle) on st = [registry, fdTable, sessState,
\* capturedId, killed, closed, badClose]; csr is what spi_GetClientSessionRef()
\* returns during the call.  killed and closed collect what the call did;
\* badClose tells that close() was called on a descriptor that is not open.
\* Mutant: the descriptor is closed but the reference stays in the map.
CloseEffect_keepRef(st, handle, csr) ==
    LET device == le_ref_Lookup(st.registry, handle)
    IN  IF device = NullDevice \/ ~isDeviceOwnedByCaller(device, csr) THEN
            [st EXCEPT !.sessState = KillClient(st.sessState, csr),
                       !.killed = st.killed \cup {csr}]
        ELSE
            [st EXCEPT !.fdTable = Without(st.fdTable, device.fd),
                       !.closed = st.closed \cup {device},
                       !.badClose = st.badClose \/ device.fd \notin DOMAIN st.fdTable]
\* Mutant: a caller that fails the ownership test is made the owner.
CloseEffect_adopt(st, handle, csr) ==
    LET device == le_ref_Lookup(st.registry, handle)
    IN  IF device = NullDevice THEN
            [st EXCEPT !.sessState = KillClient(st.sessState, csr),
                       !.killed = st.killed \cup {csr}]
        ELSE IF ~isDeviceOwnedByCaller(device, csr) THEN
            [st EXCEPT !.registry[handle].owningSession = csr]
        ELSE
            [st EXCEPT !.registry = Without(st.registry, handle),
                       !.capturedId = Without(st.capturedId, handle),
                       !.fdTable = Without(st.fdTable, device.fd),
                       !.closed = st.closed \cup {device}]
\* Mutant: the reference is deleted but close() is never called.
CloseEffect_noClose(st, handle, csr) ==
    LET device == le_ref_Lookup(st.registry, handle)
    IN  IF device = NullDevice \/ ~isDeviceOwnedByCaller(device, csr) THEN
            [st EXCEPT !.sessState = KillClient(st.sessState, csr),
                       !.killed = st.killed \cup {csr}]
        ELSE
            [st EXCEPT !.registry = Without(st.registry, handle),
                       !.capturedId = Without(st.capturedId, handle),
                       !.closed = st.closed \cup {device}]
CloseEffect(st, handle, csr) ==
    LET device == le_ref_Lookup(st.registry, handle)
    IN  IF device = NullDevice THEN
            [st EXCEPT !.sessState = KillClient(st.sessState, csr),
                       !.killed = st.killed \cup {csr}]
        ELSE IF ~isDeviceOwnedByCaller(device, csr) THEN
            [st EXCEPT !.sessState = KillClient(st.sessState, csr),
                       !.killed = st.killed \cup {csr}]
        ELSE
            [st EXCEPT !.registry = Without(st.registry, handle),
                       !.capturedId = Without(st.capturedId, handle),
                       !.fdTable = Without(st.fdTable, device.fd),
                       !.closed = st.closed \cup {device},
                       !.badClose = st.badClose \/ device.fd \notin DOMAIN st.fdTable]

CurrentSt == [registry |-> registry, fdTable |-> fdTable, sessState |-> sessState,
              capturedId |-> capturedId, killed |-> {}, closed |-> {},
              badClose |-> FALSE]

spi_Close(s, handle) ==
    /\ running
    /\ sessState[s] = "connected"
    /\ ClientSessionRef' = s
    /\ LET st == CloseEffect(CurrentSt, handle, s)
       IN /\ registry' = st.registry
          /\ fdTable' = st.fdTable
          /\ sessState' = st.sessState
          /\ capturedId' = st.capturedId
          /\ last' = [NoCall EXCEPT !.op = "Close", !.caller = s, !.handle = handle,
                                    !.killed = st.killed, !.closed = st.closed,
                                    !.badClose = st.badClose]
    /\ UNCHANGED <<nextRef, nextSerial, running>>

\* ------------------------------------------- closeAllHandlesOwnedByClient
\* le_ref_NextNode on the live map: the next reference after cur, or NullRef
\* when the iterator is past the last node (LE_NOT_FOUND).
\* Mutant: the iterator moves two nodes forward.
le_ref_NextNode_skip(reg, cur) ==
    LET after == {h \in DOMAIN reg : h > cur}
        second == {h \in after : h > Min(after)}
    IN  IF after = {} \/ second = {} THEN NullRef ELSE Min(second)
le_ref_NextNode(reg, cur) ==
    IF \E h \in DOMAIN reg : h > cur
    THEN Min({h \in DOMAIN reg : h > cur})
    ELSE NullRef

\* Mutant: the cleanup picks every handle of the map.
OwnedBy_any(device, owner) == TRUE
\* (device->owningSession == owner): the handles the cleanup picks to close.
OwnedBy(device, owner) == device.owningSession = owner

\* One round of the while loop with the iterator on node it; the iterator is
\* advanced before spi_Close removes the node it stood on.
RECURSIVE CleanupLoop(_, _, _, _, _)
CleanupLoop(st, it, owner, csr, examined) ==
    IF it = NullRef THEN [st |-> st, examined |-> examined]
    ELSE LET device == st.registry[it]   \* le_ref_GetValue(it)
             toClose == IF OwnedBy(device, owner) THEN it ELSE NullRef
             nextIt == le_ref_NextNode(st.registry, it)
             st2 == IF toClose # NullRef THEN CloseEffect(st, toClose, csr) ELSE st
         IN CleanupLoop(st2, nextIt, owner, csr, Append(examined, it))

closeAllHandlesOwnedByClient(st, owner, csr) ==
    CleanupLoop(st, le_ref_NextNode(st.registry, NullRef), owner, csr, <<>>)

\* The transport's close notification for session s.  It is not a client
\* request, so spi_GetClientSessionRef() still answers with the session of the
\* last request the service handled.
clientSessionClosedHandler(s) ==
    /\ running
    /\ sessState[s] \in {"connected", "killed"}
    /\ LET r == closeAllHandlesOwnedByClient(
                    [CurrentSt EXCEPT !.sessState[s] = "closed"], s, ClientSessionRef)
       IN /\ registry' = r.st.registry
          /\ fdTable' = r.st.fdTable
          /\ sessState' = r.st.sessState
          /\ capturedId' = r.st.capturedId
          /\ last' = [NoCall EXCEPT !.op = "Disconnect", !.caller = s,
                                    !.killed = r.st.killed, !.closed = r.st.closed,
                                    !.badClose = r.st.badClose,
                                    !.examined = r.examined]
    /\ UNCHANGED <<nextRef, nextSerial, ClientSessionRef, running>>

\* ------------------------------------------------------------ SPI library
\* int8_t TransferResult = ioctl(...): the driver's count is kept modulo 2^8.
Int8(x) == LET m == x % 256 IN IF m >= 128 THEN m - 256 ELSE m

ConfigRequests == <<"SPI_IOC_WR_MODE", "SPI_IOC_RD_MODE",
                    "SPI_IOC_WR_BITS_PER_WORD", "SPI_IOC_RD_BITS_PER_WORD",
                    "SPI_IOC_WR_MAX_SPEED_HZ", "SPI_IOC_RD_MAX_SPEED_HZ",
                    "SPI_IOC_WR_LSB_FIRST", "SPI_IOC_RD_LSB_FIRST">>

Ioctl(fd, req, segs) == [fd |-> fd, req |-> req, segs |-> segs]
Seg(tx, rx, len) == [tx |-> tx, rx |-> rx, len |-> len]

\* Mutant: the test is <= 0, so an ioctl that returns 0 (success) is fatal.
spiLib_Configure_fatalOnZero(fd, failAt) ==
    [issued |-> <<Ioctl(fd, ConfigRequests[1], <<>>)>>, fatal |-> TRUE]
\* Mutant: a failing ioctl is only logged and the remaining ones are issued.
spiLib_Configure_continue(fd, failAt) ==
    [issued |-> [k \in 1..Len(ConfigRequests) |-> Ioctl(fd, ConfigRequests[k], <<>>)],
     fatal |-> failAt # 0]
\* failAt = 0: every ioctl succeeds; failAt = k: the k-th ioctl returns -1 and
\* LE_FATAL_IF ends the process before the next one is issued.
spiLib_Configure(fd, failAt) ==
    [issued |-> [k \in 1..(IF failAt = 0 THEN Len(ConfigRequests) ELSE failAt) |->
                   Ioctl(fd, ConfigRequests[k], <<>>)],
     fatal |-> failAt # 0]

\* What one successful configuration ioctl does to the caller's variables
\* (loc: mode, bits, speed, msb) and to the driver's registers (reg).  mode
\* and msb are ints handed to requests that move one byte: the low byte is
\* stored, and a read-back replaces the low byte only.  bits is a uint8_t and
\* speed a uint32_t, moved whole.
IoctlEffect(req, loc, reg) ==
    CASE req = "SPI_IOC_WR_MODE" ->
           [loc |-> loc, reg |-> [reg EXCEPT !.mode = loc.mode % 256]]
      [] req = "SPI_IOC_RD_MODE" ->
           [loc |-> [loc EXCEPT !.mode = (loc.mode - (loc.mode % 256)) + reg.mode],
            reg |-> reg]
      [] req = "SPI_IOC_WR_BITS_PER_WORD" ->
           [loc |-> loc, reg |-> [reg EXCEPT !.bits = loc.bits]]
      [] req = "SPI_IOC_RD_BITS_PER_WORD" ->
           [loc |-> [loc EXCEPT !.bits = reg.bits], reg |-> reg]
      [] req = "SPI_IOC_WR_MAX_SPEED_HZ" ->
           [loc |-> loc, reg |-> [reg EXCEPT !.speed = loc.speed]]
      [] req = "SPI_IOC_RD_MAX_SPEED_HZ" ->
           [loc |-> [loc EXCEPT !.speed = reg.speed], reg |-> reg]
      [] req = "SPI_IOC_WR_LSB_FIRST" ->
           [loc |-> loc, reg |-> [reg EXCEPT !.msb = loc.msb % 256]]
      [] req = "SPI_IOC_RD_LSB_FIRST" ->
           [loc |-> [loc EXCEPT !.msb = (loc.msb - (loc.msb % 256)) + reg.msb],
            reg |-> reg]

\* The caller's variables and the registers after the first n requests of
\* reqs have succeeded.
RECURSIVE ConfigureRun(_, _, _, _)
ConfigureRun(reqs, n, loc, reg) ==
    IF n = 0 THEN [loc |-> loc, reg |-> reg]
    ELSE LET before == ConfigureRun(reqs, n - 1, loc, reg)
         IN  IoctlEffect(reqs[n], before.loc, before.reg)

\* spiLib_Configure seen from the driver: the failing ioctl (failAt) changes
\* nothing and none follows it.
spiLib_ConfigureValues(cfg, reg, failAt) ==
    ConfigureRun(ConfigRequests,
                 IF failAt = 0 THEN Len(ConfigRequests) ELSE failAt - 1, cfg, reg)

\* count is what ioctl(fd, SPI_IOC_MESSAGE(n), tr) returns.
\* Mutant: one segment that transmits and receives at the same time.
spiLib_WriteRead_merged(fd, writeDataLength, readDataLength, count) ==
    [issued |-> <<Ioctl(fd, "SPI_IOC_MESSAGE",
                        <<Seg(TRUE, TRUE, writeDataLength)>>)>>,
     result |-> IF Int8(count) < 1 THEN "LE_FAULT" ELSE "LE_OK"]
spiLib_WriteRead(fd, writeDataLength, readDataLength, count) ==
    [issued |-> <<Ioctl(fd, "SPI_IOC_MESSAGE",
                        <<Seg(TRUE, FALSE, writeDataLength),
                          Seg(FALSE, TRUE, readDataLength)>>)>>,
     result |-> IF Int8(count) < 1 THEN "LE_FAULT" ELSE "LE_OK"]

spiLib_Write(fd, writeDataLength, count) ==
    [issued |-> <<Ioctl(fd, "SPI_IOC_MESSAGE", <<Seg(TRUE, FALSE, writeDataLength)>>)>>,
     result |-> IF Int8(count) < 1 THEN "LE_FAULT" ELSE "LE_OK"]

spiLib_Read_Hd(fd, readDataLength, count) ==
    [issued |-> <<Ioctl(fd, "SPI_IOC_MESSAGE", <<Seg(FALSE, TRUE, readDataLength)>>)>>,
     result |-> IF count < 1 THEN "LE_FAULT" ELSE "LE_OK"]

spiLib_WriteRead_Fd(fd, dataLength, count) ==
    [issued |-> <<Ioctl(fd, "SPI_IOC_MESSAGE", <<Seg(TRUE, TRUE, dataLength)>>)>>,
     result |-> IF count < 1 THEN "LE_FAULT" ELSE "LE_OK"]

NoIo == [issued |-> <<>>, result |-> "LE_FAULT"]

\* -------------------------------------------------------- spi_Configure
spi_Configure(s, handle, failAt) ==
    /\ running
    /\ sessState[s] = "connected"
    /\ ClientSessionRef' = s
    /\ LET device == le_ref_Lookup(registry, handle)
           found == device # NullDevice
           owned == found /\ isDeviceOwnedByCaller(device, s)
           lib == IF found THEN spiLib_Configure(device.fd, failAt)
                  ELSE [issued |-> <<>>, fatal |-> FALSE]
       IN /\ ~found => failAt = 0
          /\ sessState' = IF owned THEN sessState ELSE KillClient(sessState, s)
          /\ running' = ~lib.fatal
          /\ last' = [NoCall EXCEPT !.op = "Configure", !.caller = s, !.handle = handle,
                                    !.killed = IF owned THEN {} ELSE {s},
                                    !.issued = lib.issued, !.fatal = lib.fatal]
    /\ UNCHANGED <<registry, nextRef, fdTable, nextSerial, capturedId>>

\* ------------------------------------------------------------ transfers
\* The common tail of the four transfer handlers: kill tells whether
\* LE_KILL_CLIENT ran, io is what the library call did (NoIo when the handler
\* returned before it).
TransferDone(op, s, handle, wlen, rlen, kill, io) ==
    /\ sessState' = IF kill THEN KillClient(sessState, s) ELSE sessState
    /\ last' = [NoCall EXCEPT !.op = op, !.caller = s, !.handle = handle,
                              !.wlen = wlen, !.rlen = rlen,
                              !.killed = IF kill THEN {s} ELSE {},
                              !.issued = io.issued,
                              !.result = IF io.result = "LE_OK" THEN "LE_OK" ELSE "LE_FAULT"]
    /\ UNCHANGED <<registry, nextRef, fdTable, nextSerial, capturedId, running>>

spi_WriteRead_Hd(s, handle, writeDataLength, readDataLength, count) ==
    /\ running
    /\ sessState[s] = "connected"
    /\ ClientSessionRef' = s
    /\ LET device == le_ref_Lookup(registry, handle)
       IN  IF device = NullDevice THEN
               TransferDone("WriteRead_Hd", s, handle, writeDataLength, readDataLength,
                            TRUE, NoIo)
           ELSE IF ~isDeviceOwnedByCaller(device, s) THEN
               TransferDone("WriteRead_Hd", s, handle, writeDataLength, readDataLength,
                            TRUE, NoIo)
           ELSE
               TransferDone("WriteRead_Hd", s, handle, writeDataLength, readDataLength,
                            FALSE,
                            spiLib_WriteRead(device.fd, writeDataLength,
                                             readDataLength, count))

spi_Write_Hd(s, handle, writeDataLength, count) ==
    /\ running
    /\ sessState[s] = "connected"
    /\ ClientSessionRef' = s
    /\ LET device == le_ref_Lookup(registry, handle)
       IN  IF device = NullDevice THEN
               TransferDone("Write_Hd", s, handle, writeDataLength, 0, TRUE, NoIo)
           ELSE
               TransferDone("Write_Hd", s, handle, writeDataLength, 0,
                            ~isDeviceOwnedByCaller(device, s),
                            spiLib_Write(device.fd, writeDataLength, count))

spi_WriteRead_Fd(s, handle, writeDataLength, readDataLength, count) ==
    /\ running
    /\ sessState[s] = "connected"
    /\ ClientSessionRef' = s
    /\ LET device == le_ref_Lookup(registry, handle)
       IN  IF device = NullDevice THEN
               TransferDone("WriteRead_Fd", s, handle, writeDataLength, readDataLength,
                            TRUE, NoIo)
           ELSE IF ~isDeviceOwnedByCaller(device, s) THEN
               TransferDone("WriteRead_Fd", s, handle, writeDataLength, readDataLength,
                            TRUE, NoIo)
           ELSE
               TransferDone("WriteRead_Fd", s, handle, writeDataLength, readDataLength,
                            readDataLength < writeDataLength,
                            spiLib_WriteRead_Fd(device.fd, writeDataLength, count))

spi_Read_Hd(s, handle, readDataLength, count) ==
    /\ running
    /\ sessState[s] = "connected"
    /\ ClientSessionRef' = s
    /\ LET device == le_ref_Lookup(registry, handle)
       IN  IF device = NullDevice THEN
               TransferDone("Read_Hd", s, handle, 0, readDataLength, TRUE, NoIo)
           ELSE
               TransferDone("Read_Hd", s, handle, 0, readDataLength,
                            ~isDeviceOwnedByCaller(device, s),
                            spiLib_Read_Hd(device.fd, readDataLength, count))

\* ------------------------------------------------- the calls that are tried
\* The file that can take the place of target behind a path between stat()
\* and open().
Replacement(target) == IF target = FileA THEN FileB ELSE FileA

\* The names the failures of snprintf, stat() and open() are tried with.
FaultNames == {"spidev0.0"}

\* What the C library and the file system can answer during spi_Open(n):
\* <<snprintf fails, errno of stat, file behind the path at open(), errno of
\* open>>.  A step the call does not reach has the neutral value.
OpenInputs(n) ==
    LET target == Resolve(fs, n)
        neutral(sf, se) == <<sf, se, target, "none">>
    IN  (IF target = Absent THEN {neutral(FALSE, "ENOENT")}
         ELSE {<<FALSE, "none", f, "none">> : f \in {target, Replacement(target)}})
        \cup (IF n \in FaultNames
              THEN {neutral(TRUE, "none")}
                   \cup {neutral(FALSE, se) : se \in ErrnosFor(target) \ {"none"}}
                   \cup {<<FALSE, "none", target, oe>> : oe \in {"EACCES", "EIO"}}
                   \cup {<<FALSE, "none", Absent, "ENOENT">>}
              ELSE {})

\* Handle values a client can pass: NULL and every reference issued so far.
HandleArgs == 0..(nextRef - 1)
\* Buffer lengths and driver counts the handlers are tried with; a call that
\* reaches no library call is tried with the first of each only.
WriteLens == {4}
ReadLens == {2, 4}
Counts == {0, 1}
FailPoints == {0, 1, 8}
\* Whether the handler gets as far as its library call.
Found(h) == h \in DOMAIN registry
Owned(s, h) == Found(h) /\ registry[h].owningSession = s
Pick(S, reaches) == IF reaches THEN S ELSE {Min(S)}

\* The service specification does not follow the driver's registers (no
\* handler reads them) nor the library inputs: LibSpec below does.
OpenCall ==
    /\ \E s \in Sessions, n \in DeviceNames : \E inp \in OpenInputs(n) :
         spi_Open(s, n, inp[1], inp[2], inp[3], inp[4])
    /\ UNCHANGED <<libIn, driver>>

CloseCall ==
    /\ \E s \in Sessions, h \in HandleArgs : spi_Close(s, h)
    /\ UNCHANGED <<libIn, driver>>

ConfigureCall ==
    /\ \E s \in Sessions, h \in HandleArgs : \E failAt \in Pick(FailPoints, Found(h)) :
           spi_Configure(s, h, failAt)
    /\ UNCHANGED <<libIn, driver>>

WriteReadHdCall ==
    /\ \E s \in Sessions, h \in HandleArgs :
         \E w \in Pick(WriteLens, Owned(s, h)), r \in Pick(ReadLens, Owned(s, h)),
            c \in Pick(Counts, Owned(s, h)) :
           spi_WriteRead_Hd(s, h, w, r, c)
    /\ UNCHANGED <<libIn, driver>>

WriteHdCall ==
    /\ \E s \in Sessions, h \in HandleArgs :
         \E w \in Pick(WriteLens, Found(h)), c \in Pick(Counts, Found(h)) :
           spi_Write_Hd(s, h, w, c)
    /\ UNCHANGED <<libIn, driver>>

WriteReadFdCall ==
    /\ \E s \in Sessions, h \in HandleArgs :
         \E w \in Pick(WriteLens, Owned(s, h)), r \in Pick(ReadLens, Owned(s, h)),
            c \in Pick(Counts, Owned(s, h)) :
           spi_WriteRead_Fd(s, h, w, r, c)
    /\ UNCHANGED <<libIn, driver>>

ReadHdCall ==
    /\ \E s \in Sessions, h \in HandleArgs :
         \E r \in Pick(ReadLens, Found(h)), c \in Pick(Counts, Found(h)) :
           spi_Read_Hd(s, h, r, c)
    /\ UNCHANGED <<libIn, driver>>

SessionClosed ==
    /\ \E s \in Sessions : clientSessionClosedHandler(s)
    /\ UNCHANGED <<libIn, driver>>

Next ==
    \/ OpenCall
    \/ CloseCall
    \/ ConfigureCall
    \/ WriteReadHdCall
    \/ WriteHdCall
    \/ WriteReadFdCall
    \/ ReadHdCall
    \/ SessionClosed

Spec == Init /\ [][Next]_vars

\* ------------------------------------------------------------ the linked-list variant
\* The variant of the service that keeps its handles in the doubly linked list
\* g.deviceHandles and hands the clients the address of the record.  registry
\* maps an address to its record; le_dls_Stack puts a new record at the head,
\* so the list runs from the newest address to the oldest.
RECURSIVE DlsList(_)
DlsList(reg) ==
    IF DOMAIN reg = {} THEN <<>>
    ELSE LET head == CHOOSE h \in DOMAIN reg : \A k \in DOMAIN reg : k <= h
         IN  <<head>> \o DlsList(Without(reg, head))

\* The first element of the list, from the head, that is among matching;
\* NullRef when the walk reaches the end.
FirstInList(reg, matching) ==
    LET list == DlsList(reg)
        hits == {i \in 1..Len(list) : list[i] \in matching}
    IN  IF hits = {} THEN NullRef ELSE list[Min(hits)]

isHandleOwnedByCaller(handle, csr) == handle.owningSession = csr

findDeviceHandleWithInode(reg, inode) ==
    FirstInList(reg, {h \in DOMAIN reg : reg[h].inode = inode})

\* spi_Open of the variant: the same steps as spi_Open above; *handle is
\* written only on success, so after a failure the caller's variable holds
\* whatever it held before (staleOut).
ll_spi_Open(s, deviceName, snprintfFails, statErrno, fileAtOpen, openErrno, staleOut) ==
    /\ running
    /\ sessState[s] = "connected"
    /\ nextRef <= MaxRefs
    /\ ClientSessionRef' = s
    /\ LET out == spi_OpenResult(registry, deviceName, snprintfFails, statErrno, openErrno)
           deviceFileStat == Resolve(fs, deviceName)
           openResult == LowestFreeFd(fdTable)
           newHandle == [fd |-> openResult, inode |-> deviceFileStat.ino,
                         owningSession |-> s]
           statOk == out.step \in {"find", "open", "done"}
       IN /\ out.result = "LE_OK" => staleOut = NullRef
          /\ last' = [NoCall EXCEPT
                        !.op = "Open", !.caller = s, !.name = deviceName,
                        !.result = out.result,
                        !.handleOut = IF out.result = "LE_OK" THEN nextRef ELSE staleOut,
                        !.snprintfResult = out.snprintfResult,
                        !.statErrno = statErrno, !.openErrno = openErrno,
                        !.statCalled = out.step # "snprintf",
                        !.statId = IF statOk THEN deviceFileStat ELSE NoFile,
                        !.openCalled = out.step \in {"open", "done"}]
          /\ IF out.result = "LE_OK"
             THEN /\ registry' = registry @@ (nextRef :> newHandle)
                  /\ capturedId' = capturedId @@ (nextRef :> deviceFileStat)
                  /\ nextRef' = nextRef + 1
                  /\ fdTable' = fdTable @@ (openResult :> [file |-> fileAtOpen,
                                                           serial |-> nextSerial])
                  /\ nextSerial' = nextSerial + 1
             ELSE UNCHANGED <<registry, capturedId, nextRef, fdTable, nextSerial>>
    /\ UNCHANGED <<sessState, running>>

\* spi_Close of the variant on a record that is in the list.  Neither
\* LE_KILL_CLIENT is followed by a return: whatever the tests say, the record
\* is unlinked, its descriptor closed and its memory freed.
ll_CloseEffect(st, handle, csr) ==
    LET rec == st.registry[handle]
        notOwner == ~isHandleOwnedByCaller(rec, csr)
        foundHandle == findDeviceHandleWithInode(st.registry, rec.inode)
        kill == notOwner \/ foundHandle = NullRef \/ foundHandle # handle
    IN  [st EXCEPT !.sessState = IF kill THEN KillClient(st.sessState, csr)
                                 ELSE st.sessState,
                   !.killed = IF kill THEN st.killed \cup {csr} ELSE st.killed,
                   !.registry = Without(st.registry, handle),
                   !.capturedId = Without(st.capturedId, handle),
                   !.fdTable = Without(st.fdTable, rec.fd),
                   !.closed = st.closed \cup {rec},
                   !.badClose = st.badClose \/ rec.fd \notin DOMAIN st.fdTable]

\* Clients pass addresses of records that are in the list (an address that was
\* freed, or NULL, makes spi_Close read memory it does not own).
ll_spi_Close(s, handle) ==
    /\ running
    /\ sessState[s] = "connected"
    /\ handle \in DOMAIN registry
    /\ ClientSessionRef' = s
    /\ LET st == ll_CloseEffect(CurrentSt, handle, s)
       IN /\ registry' = st.registry
          /\ fdTable' = st.fdTable
          /\ sessState' = st.sessState
          /\ capturedId' = st.capturedId
          /\ last' = [NoCall EXCEPT !.op = "Close", !.caller = s, !.handle = handle,
                                    !.killed = st.killed, !.closed = st.closed,
                                    !.badClose = st.badClose]
    /\ UNCHANGED <<nextRef, nextSerial, running>>

\* The do-while sets handleFound to false after every walk, so its body runs
\* once: the walk closes the first record of the owner it meets and stops.
ll_closeAllHandlesOwnedByClient(st, owner, csr) ==
    LET handle == FirstInList(st.registry,
                   {h \in DOMAIN st.registry : st.registry[h].owningSession = owner})
    IN  IF handle = NullRef THEN st ELSE ll_CloseEffect(st, handle, csr)

ll_clientSessionClosedHandler(s) ==
    /\ running
    /\ sessState[s] \in {"connected", "killed"}
    /\ LET st == ll_closeAllHandlesOwnedByClient(
                     [CurrentSt EXCEPT !.sessState[s] = "closed"], s, ClientSessionRef)
       IN /\ registry' = st.registry
          /\ fdTable' = st.fdTable
          /\ sessState' = st.sessState
          /\ capturedId' = st.capturedId
          /\ last' = [NoCall EXCEPT !.op = "Disconnect", !.caller = s,
                                    !.killed = st.killed, !.closed = st.closed,
                                    !.badClose = st.badClose]
    /\ UNCHANGED <<nextRef, nextSerial, ClientSessionRef, running>>

ListOpenCall ==
    /\ \E s \in Sessions, n \in DeviceNames : \E inp \in OpenInputs(n) :
         \E staleOut \in HandleArgs :
           ll_spi_Open(s, n, inp[1], inp[2], inp[3], inp[4], staleOut)
    /\ UNCHANGED <<libIn, driver>>

ListCloseCall ==
    /\ \E s \in Sessions, h \in HandleArgs : ll_spi_Close(s, h)
    /\ UNCHANGED <<libIn, driver>>

ListSessionClosed ==
    /\ \E s \in Sessions : ll_clientSessionClosedHandler(s)
    /\ UNCHANGED <<libIn, driver>>

NextList ==
    \/ ListOpenCall
    \/ ListCloseCall
    \/ ListSessionClosed

ListSpec == Init /\ [][NextList]_vars

\* ------------------------------------------------------------ the library alone
\* LibSpec calls the library functions on one descriptor.  The arguments and
\* the driver's answers are drawn once, in InitLib, and every call of a
\* behaviour uses them; last.seq counts the calls, at most MaxLibCalls.
MaxLibCalls == 2
MAX_WRITE_SIZE == 1024
MAX_READ_SIZE == 1024
LibFd == FirstFd
LibLens == {1, 3, 5, MAX_WRITE_SIZE}
LibCounts == (0 - 1)..(MAX_WRITE_SIZE + MAX_READ_SIZE)
LibFailPoints == 0..Len(ConfigRequests)
LibConfigs == [mode : {0, 3, 259}, bits : {8, 16}, speed : {960000}, msb : {0, 8}]
DriverReset == [mode |-> 0, bits |-> 8, speed |-> 500000, msb |-> 0]

LibInputs ==
    {[NoInput EXCEPT !.kind = "transfer", !.wlen = w, !.rlen = r, !.count = c] :
        w \in LibLens, r \in LibLens, c \in LibCounts}
    \cup {[NoInput EXCEPT !.kind = "configure", !.cfg = cfg, !.failAt = f] :
        cfg \in LibConfigs, f \in LibFailPoints}

InitLib ==
    /\ registry = <<>>
    /\ nextRef = 1
    /\ fdTable = <<>>
    /\ nextSerial = 1
    /\ capturedId = <<>>
    /\ ClientSessionRef = NoSession
    /\ sessState = [s \in Sessions |-> "connected"]
    /\ running = TRUE
    /\ last = NoCall
    /\ libIn \in LibInputs
    /\ driver = DriverReset

LibFrame ==
    UNCHANGED <<registry, nextRef, fdTable, nextSerial, capturedId,
                ClientSessionRef, sessState, libIn>>

LibConfigure ==
    /\ running
    /\ last.seq < MaxLibCalls
    /\ libIn.kind = "configure"
    /\ LET lib == spiLib_Configure(LibFd, libIn.failAt)
           val == spiLib_ConfigureValues(libIn.cfg, driver, libIn.failAt)
       IN /\ driver' = val.reg
          /\ running' = ~lib.fatal
          /\ last' = [NoCall EXCEPT !.op = "spiLib_Configure", !.issued = lib.issued,
                                    !.fatal = lib.fatal, !.failAt = libIn.failAt,
                                    !.cfg = libIn.cfg, !.readback = val.loc,
                                    !.seq = last.seq + 1]
    /\ LibFrame

LibTransfer(op, io) ==
    /\ running
    /\ last.seq < MaxLibCalls
    /\ last' = [NoCall EXCEPT !.op = op, !.issued = io.issued, !.result = io.result,
                              !.wlen = libIn.wlen, !.rlen = libIn.rlen,
                              !.count = libIn.count, !.seq = last.seq + 1]
    /\ UNCHANGED <<driver, running>>
    /\ LibFrame

LibWriteRead ==
    /\ libIn.kind = "transfer"
    /\ LibTransfer("spiLib_WriteRead",
                   spiLib_WriteRead(LibFd, libIn.wlen, libIn.rlen, libIn.count))

LibWrite ==
    /\ libIn.kind = "transfer"
    /\ LibTransfer("spiLib_Write", spiLib_Write(LibFd, libIn.wlen, libIn.count))

LibRead ==
    /\ libIn.kind = "transfer"
    /\ LibTransfer("spiLib_Read_Hd",
                   spiLib_Read_Hd(LibFd, libIn.rlen, libIn.count))

LibWriteReadFd ==
    /\ libIn.kind = "transfer"
    /\ LibTransfer("spiLib_WriteRead_Fd",
                   spiLib_WriteRead_Fd(LibFd, libIn.wlen, libIn.count))

NextLib ==
    \/ LibConfigure
    \/ LibWriteRead
    \/ LibWrite
    \/ LibRead
    \/ LibWriteReadFd

LibSpec == InitLib /\ [][NextLib]_vars

\* ======================================================================
\* Properties
\* ======================================================================
HandleOps == {"Close", "Configure", "WriteRead_Hd", "Write_Hd", "WriteRead_Fd", "Read_Hd"}
IoOps == HandleOps \ {"Close"}

\* C1: in every reachable state no two distinct live handles have the same
\* identity, neither as stored in the handle (inode) nor as stat() reported it.
C1_UniqueIdentity ==
    \A h1, h2 \in DOMAIN registry :
        h1 # h2 => /\ registry[h1].inode # registry[h2].inode
                   /\ capturedId[h1] # capturedId[h2]

\* Two handles are live after a third one was opened and closed.
C1_Witness ==
    /\ Cardinality(DOMAIN registry) = 2
    /\ nextRef = 4

\* C2: while a handle opened for a file is live, an Open by any session of a
\* name that resolves to the same file identity (the same name or another
\* one) returns Duplicate and creates no handle.
C2_SecondOpenIsDuplicate ==
    [][ ( /\ last'.op = "Open"
          /\ last'.statId # NoFile
          /\ \E h \in DOMAIN registry : capturedId[h] = last'.statId )
        => ( /\ last'.result = "LE_DUPLICATE"
             /\ last'.handleOut = NullRef
             /\ registry' = registry
             /\ fdTable' = fdTable ) ]_vars

\* An Open through the second name of a file met the live handle of another
\* session and was answered with Duplicate.
C2_Witness ==
    /\ last.op = "Open"
    /\ last.name = "spi_alias"
    /\ last.result = "LE_DUPLICATE"
    /\ \E h \in DOMAIN registry : /\ capturedId[h] = last.statId
                                  /\ registry[h].owningSession # last.caller

\* C3 (as claimed): when the close handler for session s returns, no handle
\* that s owned is left in the registry and its descriptor is released.
C3_CleanupRemovesAll ==
    [][ last'.op = "Disconnect"
        => \A h \in DOMAIN registry :
             registry[h].owningSession = last'.caller
             => /\ h \notin DOMAIN registry'
                /\ registry[h].fd \notin DOMAIN fdTable' ]_vars

\* C4: the cleanup for session s leaves every live handle of another session
\* in the registry with the same fields and its descriptor open.
C4_CleanupLeavesOthers ==
    [][ last'.op = "Disconnect"
        => \A h \in DOMAIN registry :
             registry[h].owningSession # last'.caller
             => /\ h \in DOMAIN registry'
                /\ registry'[h] = registry[h]
                /\ registry[h].fd \in DOMAIN fdTable'
                /\ fdTable'[registry[h].fd] = fdTable[registry[h].fd] ]_vars

\* A cleanup closed a handle of its session while a handle of another session
\* stayed.
C4_Witness ==
    /\ last.op = "Disconnect"
    /\ last.closed # {}
    /\ \E h \in DOMAIN registry : registry[h].owningSession # last.caller

\* C5 (as claimed): Configure or a transfer called on a live handle by a
\* session that does not own it terminates the caller and issues nothing on
\* the descriptor.
C5_NonOwnerIssuesNothing ==
    ( /\ last.op \in IoOps
      /\ last.handle \in DOMAIN registry
      /\ registry[last.handle].owningSession # last.caller )
    => ( /\ last.caller \in last.killed
         /\ last.issued = <<>> )

\* C6: Close on a handle that is not in the registry or that the caller does
\* not own terminates the caller, removes no handle and releases no descriptor.
C6_BadCloseChangesNothing ==
    [][ ( /\ last'.op = "Close"
          /\ \/ last'.handle \notin DOMAIN registry
             \/ registry[last'.handle].owningSession # last'.caller )
        => ( /\ last'.caller \in last'.killed
             /\ sessState'[last'.caller] = "killed"
             /\ last'.closed = {}
             /\ registry' = registry
             /\ fdTable' = fdTable ) ]_vars

\* A session called Close on the live handle of another session.
C6_Witness ==
    /\ last.op = "Close"
    /\ last.handle \in DOMAIN registry
    /\ registry[last.handle].owningSession # last.caller
    /\ last.caller \in last.killed

\* C7: after Close(h) by the owner of h no handle of the registry has h's
\* identity, and an Open of any name of that device, by any session, whose
\* stat() and open() succeed returns Ok.
C7_ReopenAfterClose ==
    (last.op = "Close" /\ last.closed # {})
    => \A d \in last.closed :
         /\ \A h \in DOMAIN registry : registry[h].inode # d.inode
         /\ \A n \in FsNames :
              Resolve(fs, n).ino = d.inode
              => spi_OpenResult(registry, n, FALSE, "none", "none").result = "LE_OK"

\* The owner closed a handle while another handle stayed open.
C7_Witness ==
    /\ last.op = "Close"
    /\ last.closed # {}
    /\ last.killed = {}
    /\ DOMAIN registry # {}

\* C8: a Close, Configure or transfer call that passes a handle that was
\* removed from the registry terminates the caller, issues nothing on any
\* descriptor and changes neither the registry nor the descriptor table.
C8_StaleHandleRejected ==
    [][ ( /\ last'.op \in HandleOps
          /\ last'.handle # NullRef
          /\ last'.handle < nextRef
          /\ last'.handle \notin DOMAIN registry )
        => ( /\ last'.caller \in last'.killed
             /\ sessState'[last'.caller] = "killed"
             /\ last'.issued = <<>>
             /\ last'.closed = {}
             /\ registry' = registry
             /\ fdTable' = fdTable ) ]_vars

\* A removed handle was passed to a transfer after a further handle had been
\* opened for the caller.
C8_Witness ==
    /\ last.op \in IoOps
    /\ last.handle # NullRef
    /\ last.handle \notin DOMAIN registry
    /\ last.caller \in last.killed
    /\ \E h \in DOMAIN registry : h > last.handle /\ registry[h].owningSession = last.caller

\* C9 (as claimed): WriteReadFullDuplex with a read capacity below the write
\* length terminates the caller and issues no transfer.
C9_ShortReadBufferRejected ==
    (last.op = "WriteRead_Fd" /\ last.rlen < last.wlen)
    => ( /\ last.caller \in last.killed
         /\ last.issued = <<>> )

\* C10 (as claimed): Open is answered with Duplicate only when a live handle
\* holds the very (device, inode) identity the name resolves to.
C10_DistinctDevicesNoDuplicate ==
    (last.op = "Open" /\ last.result = "LE_DUPLICATE")
    => \E h \in DOMAIN registry : capturedId[h] = last.statId

\* C11: every open descriptor is held by exactly one live handle and every
\* live handle holds an open descriptor of its own; close() is only ever called
\* on a descriptor that is open, and only for a handle that leaves the registry
\* in the same call.  So a descriptor is released once, not while its handle
\* is live, and none stays open without a handle.
C11_DescriptorOwnedOnce ==
    /\ \A fd \in DOMAIN fdTable :
         Cardinality({h \in DOMAIN registry : registry[h].fd = fd}) = 1
    /\ \A h \in DOMAIN registry : registry[h].fd \in DOMAIN fdTable
    /\ \A f1, f2 \in DOMAIN fdTable :
         f1 # f2 => fdTable[f1].serial # fdTable[f2].serial
    /\ ~last.badClose
    /\ Cardinality(DOMAIN fdTable) + Cardinality({n \in 1..(nextSerial - 1) :
            \A fd \in DOMAIN fdTable : fdTable[fd].serial # n}) = nextSerial - 1
    /\ \A d \in last.closed : \A h \in DOMAIN registry : registry[h].fd # d.fd

\* A cleanup released one descriptor while another one, opened since, stays
\* held by its handle.
C11_Witness ==
    /\ last.op = "Disconnect"
    /\ Cardinality(last.closed) = 1
    /\ Cardinality(DOMAIN fdTable) = 1
    /\ nextSerial = 4

\* Device names with a segment that leaves /dev ("..").
TraversalNames == {n \in DeviceNames : n = "../mnt/spidev"}

\* C12: an Open whose device name contains a path-traversal segment returns
\* LE_BAD_PARAMETER and calls neither stat() nor open().
C12_TraversalRejected ==
    (last.op = "Open" /\ last.name \in TraversalNames)
        => /\ last.result = "LE_BAD_PARAMETER"
           /\ ~last.statCalled
           /\ ~last.openCalled

LibTransferOps == {"spiLib_WriteRead", "spiLib_Write", "spiLib_Read_Hd",
                   "spiLib_WriteRead_Fd"}

\* C13: a transfer returns LE_FAULT when the count the driver reports is zero
\* or negative and LE_OK for every positive count, up to MAX_WRITE_SIZE +
\* MAX_READ_SIZE.
C13_PositiveCountIsOk ==
    last.op \in LibTransferOps
        => last.result = IF last.count <= 0 THEN "LE_FAULT" ELSE "LE_OK"

\* C14: a handle enters the registry only through an Open that returns LE_OK
\* with that handle, and leaves it only through a Close of that handle by its
\* owner or through the cleanup run for its owner's disconnect; no entry is
\* ever rewritten, and Configure and the four transfers leave the registry as
\* it is whatever they return.
C14_RegistryChangesOnlyByOpenClose ==
    [][/\ \A h \in DOMAIN registry' \ DOMAIN registry :
            /\ last'.op = "Open"
            /\ last'.result = "LE_OK"
            /\ last'.handleOut = h
       /\ \A h \in DOMAIN registry \ DOMAIN registry' :
            \/ /\ last'.op = "Close"
               /\ last'.handle = h
               /\ last'.caller = registry[h].owningSession
            \/ /\ last'.op = "Disconnect"
               /\ last'.caller = registry[h].owningSession
       /\ \A h \in DOMAIN registry \cap DOMAIN registry' : registry'[h] = registry[h]
       /\ last'.op \in IoOps => registry' = registry]_vars

\* A transfer reached the driver after handles had entered and left the
\* registry, with one handle still registered.
C14_Witness ==
    /\ last.op \in IoOps
    /\ last.issued # <<>>
    /\ nextRef = 3
    /\ Cardinality(DOMAIN registry) = 1

\* C15: an Open that does not return LE_OK leaves the registry and the set of
\* open descriptors as they were, returns the null handle and terminates no
\* session; the handle returned is non-null exactly when the result is LE_OK,
\* and then it is registered with the calling session as its owner.
C15_FailedOpenChangesNothing ==
    [][last'.op = "Open" =>
         /\ last'.result \in {"LE_OK", "LE_BAD_PARAMETER", "LE_NOT_FOUND",
                              "LE_NOT_PERMITTED", "LE_DUPLICATE", "LE_FAULT"}
         /\ (last'.handleOut # NullRef) <=> (last'.result = "LE_OK")
         /\ last'.result # "LE_OK" =>
               /\ registry' = registry
               /\ fdTable' = fdTable
               /\ sessState' = sessState
               /\ last'.killed = {}
               /\ running'
         /\ last'.result = "LE_OK" =>
               /\ last'.handleOut \in DOMAIN registry' \ DOMAIN registry
               /\ registry'[last'.handleOut].owningSession = last'.caller
               /\ sessState' = sessState]_vars

\* An Open failed at open() with EACCES while another handle was registered.
C15_Witness ==
    /\ last.op = "Open"
    /\ last.result = "LE_NOT_PERMITTED"
    /\ last.openCalled
    /\ DOMAIN registry # {}

\* The order of the configuration sub-operations: set and read back the mode,
\* the bits per word, the maximum speed, the bit order.
ExpectedConfigOrder ==
    <<"SPI_IOC_WR_MODE", "SPI_IOC_RD_MODE",
      "SPI_IOC_WR_BITS_PER_WORD", "SPI_IOC_RD_BITS_PER_WORD",
      "SPI_IOC_WR_MAX_SPEED_HZ", "SPI_IOC_RD_MAX_SPEED_HZ",
      "SPI_IOC_WR_LSB_FIRST", "SPI_IOC_RD_LSB_FIRST">>

\* C16: Configure issues its eight sub-operations in the fixed order; the first
\* one that fails ends the process and none is issued after it; when none
\* fails all eight are issued and the process goes on.
C16_ConfigureOrderAndFirstFailure ==
    last.op = "spiLib_Configure" =>
        /\ \A k \in 1..Len(last.issued) :
              /\ k <= Len(ExpectedConfigOrder)
              /\ last.issued[k].req = ExpectedConfigOrder[k]
              /\ last.issued[k].fd = LibFd
        /\ last.failAt = 0 =>
              /\ Len(last.issued) = Len(ExpectedConfigOrder)
              /\ ~last.fatal
              /\ running
        /\ last.failAt # 0 =>
              /\ Len(last.issued) = last.failAt
              /\ last.fatal
              /\ ~running

\* The third sub-operation failed and ended the process.
C16_Witness ==
    /\ last.op = "spiLib_Configure"
    /\ last.failAt = 3
    /\ Len(last.issued) = 3
    /\ ~running

\* C17: with a driver that accepts every request, stores each written
\* parameter and returns it on read-back, a Configure does not end the
\* process, and a second Configure with the same parameters on the same
\* descriptor reads back the same four values as the first.
C17_ConfigureTwiceSameReadback ==
    [][(last'.op = "spiLib_Configure" /\ libIn.failAt = 0) =>
         /\ ~last'.fatal
         /\ running'
         /\ Len(last'.issued) = Len(ConfigRequests)
         /\ last.op = "spiLib_Configure" =>
               /\ last'.cfg = last.cfg
               /\ last'.readback = last.readback
               /\ ~last.fatal]_vars

\* The second of two Configure calls has read back its values, with
\* parameters that differ from the driver's reset state in every register.
C17_Witness ==
    /\ last.op = "spiLib_Configure"
    /\ last.seq = 2
    /\ libIn.failAt = 0
    /\ last.cfg = [mode |-> 259, bits |-> 16, speed |-> 960000, msb |-> 8]
    /\ last.readback = last.cfg
    /\ driver = [mode |-> 3, bits |-> 16, speed |-> 960000, msb |-> 8]

\* C18: the cleanup ends after one pass over the registry in which every handle
\* present when it starts is examined exactly once: none is skipped and none
\* is visited again, although the handles it closes leave the registry during
\* the pass.
C18_CleanupVisitsEachOnce ==
    [][last'.op = "Disconnect" =>
         /\ Len(last'.examined) = Cardinality(DOMAIN registry)
         /\ {last'.examined[i] : i \in 1..Len(last'.examined)} = DOMAIN registry
         /\ \A i, j \in 1..Len(last'.examined) :
               last'.examined[i] = last'.examined[j] => i = j]_vars

\* A cleanup closed the first handle it examined and went on to the second
\* one, which belongs to another session and stays registered.
C18_Witness ==
    /\ last.op = "Disconnect"
    /\ Len(last.examined) = 2
    /\ Cardinality(last.closed) = 1
    /\ last.examined[1] \notin DOMAIN registry
    /\ last.examined[2] \in DOMAIN registry

\* C19: in the linked-list variant the cleanup for a disconnected session
\* closes every handle that session owns, also when it owns two or more.
C19_ListCleanupClosesAll ==
    [][last'.op = "Disconnect" =>
         \A h \in DOMAIN registry :
            registry[h].owningSession = last'.caller => h \notin DOMAIN registry']_vars

\* C20: in the linked-list variant a Close of a handle by a session that does
\* not own it removes no handle from the list and releases no descriptor.
C20_ListNonOwnerCloseRemovesNothing ==
    [][(/\ last'.op = "Close"
        /\ last'.handle \in DOMAIN registry
        /\ registry[last'.handle].owningSession # last'.caller)
         => /\ registry' = registry
            /\ fdTable' = fdTable]_vars

\* What a failure of stat() or open() is reported as: a missing file, an
\* access failure, anything else.
ExpectedForErrno(errno) ==
    CASE errno = "ENOENT" -> "LE_NOT_FOUND"
      [] errno = "EACCES" -> "LE_NOT_PERMITTED"
      [] OTHER -> "LE_FAULT"

\* C21: when the path has been formatted, the result of Open is the one of the
\* first failing step in the order path length, stat, duplicate search, open:
\* a path that does not fit is LE_BAD_PARAMETER with nothing called; a stat
\* failure is reported by its errno without a search or an open; a device that
\* is held is LE_DUPLICATE without open() being called; an open failure is
\* reported by its errno; otherwise the result is LE_OK.  A missing device is
\* LE_NOT_FOUND whatever other devices are held.
C21_FirstFailingStepDecides ==
    [][(last'.op = "Open" /\ last'.snprintfResult >= 0) =>
         LET tooLong == last'.snprintfResult > DevicePathSize - 1
             statFails == last'.statErrno # "none"
             held == \E h \in DOMAIN registry :
                        registry[h].inode = last'.statId.ino
             openFails == last'.openErrno # "none"
         IN  /\ last'.result =
                   IF tooLong THEN "LE_BAD_PARAMETER"
                   ELSE IF statFails THEN ExpectedForErrno(last'.statErrno)
                   ELSE IF held THEN "LE_DUPLICATE"
                   ELSE IF openFails THEN ExpectedForErrno(last'.openErrno)
                   ELSE "LE_OK"
             /\ last'.statCalled <=> ~tooLong
             /\ last'.openCalled <=> ~(tooLong \/ statFails \/ held)
             /\ (~tooLong /\ ~statFails /\
                  \E h \in DOMAIN registry : capturedId[h] = last'.statId)
                    => (last'.result = "LE_DUPLICATE" /\ ~last'.openCalled)
             /\ (~tooLong /\ last'.statErrno = "ENOENT")
                    => last'.result = "LE_NOT_FOUND"]_vars

\* An Open of a missing device returned LE_NOT_FOUND while another device was
\* held.
C21_Witness ==
    /\ last.op = "Open"
    /\ last.statErrno = "ENOENT"
    /\ last.result = "LE_NOT_FOUND"
    /\ DOMAIN registry # {}

\* C22: for every write length and read capacity, equal or not, the
\* half-duplex write-read issues one SPI_IOC_MESSAGE of exactly two segments,
\* the first transmit-only with the write length and the second receive-only
\* with the read capacity; the half-duplex write issues one message of a
\* single transmit-only segment with the write length.
C22_HalfDuplexSegments ==
    /\ last.op = "spiLib_WriteRead" =>
          /\ Len(last.issued) = 1
          /\ last.issued[1].req = "SPI_IOC_MESSAGE"
          /\ last.issued[1].fd = LibFd
          /\ last.issued[1].segs =
                <<[tx |-> TRUE, rx |-> FALSE, len |-> last.wlen],
                  [tx |-> FALSE, rx |-> TRUE, len |-> last.rlen]>>
    /\ last.op = "spiLib_Write" =>
          /\ Len(last.issued) = 1
          /\ last.issued[1].req = "SPI_IOC_MESSAGE"
          /\ last.issued[1].fd = LibFd
          /\ last.issued[1].segs = <<[tx |-> TRUE, rx |-> FALSE, len |-> last.wlen]>>

\* A write-read with a write length that differs from the read capacity was
\* issued.
C22_Witness ==
    /\ last.op = "spiLib_WriteRead"
    /\ last.wlen = 3
    /\ last.rlen = 5
    /\ Len(last.issued[1].segs) = 2

\* C23: handling the disconnect of a session terminates no session and
\* reports no access violation, whichever session issued the last call
\* before the disconnect.
C23_CleanupKillsNobody ==
    last.op = "Disconnect" => last.killed = {}

\* C24: the identity stored in a live handle is the identity of the file its
\* descriptor refers to, also when the entry behind the path was replaced
\* between stat() and open(); so no two live handles hold descriptors of the
\* same device.
C24_StoredIdentityIsDescriptorIdentity ==
    /\ \A h \in DOMAIN registry :
         /\ registry[h].fd \in DOMAIN fdTable
         /\ fdTable[registry[h].fd].file = capturedId[h]
         /\ fdTable[registry[h].fd].file.ino = registry[h].inode
    /\ \A h1, h2 \in DOMAIN registry :
         fdTable[registry[h1].fd].file = fdTable[registry[h2].fd].file => h1 = h2

\* C26: Open returns LE_BAD_PARAMETER exactly when the formatted path is
\* longer than DevicePathSize - 1 characters, and LE_FAULT when snprintf
\* itself fails with a negative result.
C26_PathLengthAndFormatFailure ==
    last.op = "Open" =>
        /\ (last.result = "LE_BAD_PARAMETER")
              <=> (last.snprintfResult > DevicePathSize - 1)
        /\ last.snprintfResult < 0 => last.result = "LE_FAULT"

\* C25: the descriptor, the identity and the owner of a handle stay what Open
\* made them for as long as the handle is in the registry: no Open, Close,
\* Configure, transfer or cleanup step rewrites a field of a handle that it
\* leaves registered, and a reference is never given to a second record.
C25_HandleFieldsFrozen ==
    [][/\ \A h \in DOMAIN registry \cap DOMAIN registry' :
            /\ registry'[h].fd = registry[h].fd
            /\ registry'[h].inode = registry[h].inode
            /\ registry'[h].owningSession = registry[h].owningSession
            /\ capturedId'[h] = capturedId[h]
       /\ \A h \in DOMAIN registry' \ DOMAIN registry : h >= nextRef]_vars

\* A Close by a session that does not own the handle left it registered.
C25_Witness ==
    /\ last.op = "Close"
    /\ last.killed # {}
    /\ last.handle \in DOMAIN registry
    /\ registry[last.handle].owningSession # last.caller

====
